---- MODULE Spec2Model ----
(***************************************************************************)
(* Model of catalogfi/tools: the configuration resolver (pkg/config) that  *)
(* replaces "#ENV:" / "#EncryptedENV:" strings in a configuration value,   *)
(* and the AES-256-GCM helper (pkg/cryptutil) it decrypts with.            *)
(*                                                                         *)
(* Go strings and byte slices are sequences of bytes (0..255); the         *)
(* conversions string(b) and []byte(s) do not change the bytes.            *)
(***************************************************************************)
EXTENDS Integers, Sequences, FiniteSets, TLC

(***************************************************************************)
(* String literals of the program and of the inputs, as bytes.             *)
(***************************************************************************)
\* "#ENV:"
EnvPrefix == <<35, 69, 78, 86, 58>>
\* "#EncryptedENV:"
EncryptedEnvPrefix == <<35, 69, 110, 99, 114, 121, 112, 116, 101, 100, 69, 78, 86, 58>>

\* strings.HasPrefix(s, prefix)
HasPrefix(s, prefix) ==
    /\ Len(s) >= Len(prefix)
    /\ SubSeq(s, 1, Len(prefix)) = prefix

\* strings.TrimPrefix(s, prefix)
TrimPrefix(s, prefix) ==
    IF HasPrefix(s, prefix) THEN SubSeq(s, Len(prefix) + 1, Len(s)) ELSE s

(***************************************************************************)
(* Errors.  e is the message of the error returned, w the error it wraps   *)
(* (%w) or "" when it wraps none, key the variable name the message holds. *)
(***************************************************************************)
NoErr == [e |-> "nil", w |-> "", key |-> <<>>]
Err(msg) == [e |-> msg, w |-> "", key |-> <<>>]
Wrap(msg, inner) == [e |-> msg, w |-> inner.e, key |-> <<>>]

ErrEmptyData == Err("cryptutil: empty data")
ErrEmptyKey == Err("cryptutil: empty key")
ErrInvalidKeyLength == Err("cryptutil: invalid key length, must be 32 bytes (64 hex chars) for AES-256")
\* encoding/hex: ErrLength or InvalidByteError
ErrHex == Err("encoding/hex: invalid byte or odd length hex string")
\* crypto/cipher: the error of gcm.Open
ErrOpen == Err("cipher: message authentication failed")
\* io: the error of io.ReadFull on rand.Reader
ErrRand == Err("unexpected EOF")
ErrNotFound(envKey) == [e |-> "environment variable not found", w |-> "", key |-> envKey]
ErrUsage == Err("expected pointer to struct")

(***************************************************************************)
(* encoding/hex                                                            *)
(***************************************************************************)
HexVal(c) ==
    IF c \in 48..57 THEN c - 48
    ELSE IF c \in 97..102 THEN c - 87
    ELSE IF c \in 65..70 THEN c - 55
    ELSE -1

HexChar(n) == IF n < 10 THEN 48 + n ELSE 87 + n

\* hex.DecodeString: the bytes, or an error on an odd length or a non-hex byte
HexDecodeString(s) ==
    IF Len(s) % 2 = 0 /\ \A i \in 1..Len(s) : HexVal(s[i]) >= 0
    THEN [err |-> NoErr,
          b |-> [i \in 1..(Len(s) \div 2) |-> 16 * HexVal(s[2 * i - 1]) + HexVal(s[2 * i])]]
    ELSE [err |-> ErrHex, b |-> <<>>]

\* hex.EncodeToString: two lower-case digits per byte
HexEncodeToString(b) ==
    [i \in 1..(2 * Len(b)) |->
        IF i % 2 = 1 THEN HexChar(b[(i + 1) \div 2] \div 16)
                     ELSE HexChar(b[i \div 2] % 16)]

\* hexDecode
hexDecode(hexData) ==
    IF hexData = <<>> THEN [err |-> ErrEmptyData, b |-> <<>>]
    ELSE LET ret(d) ==
                 IF d.err # NoErr
                 THEN [err |-> Wrap("cryptutil: invalid hex data", d.err), b |-> <<>>]
                 ELSE d
         IN ret(HexDecodeString(hexData))

(***************************************************************************)
(* AES-256-GCM (crypto/aes, crypto/cipher).  The library is outside the    *)
(* repository; it is modelled by a keyed byte cipher with a 12-byte nonce  *)
(* and a 16-byte tag over key, nonce and ciphertext, which is what the     *)
(* callers rely on: Open inverts Seal under the same key and nonce, and    *)
(* rejects a changed ciphertext or another key.                            *)
(***************************************************************************)
KeySize == 32
NonceSize == 12
TagSize == 16

RECURSIVE SumBytes(_)
SumBytes(b) == IF b = <<>> THEN 0 ELSE b[1] + SumBytes(Tail(b))

gcmStream(key, nonce, i) ==
    key[((i - 1) % KeySize) + 1] + nonce[((i - 1) % NonceSize) + 1] + i

gcmTag(key, nonce, ct) ==
    [j \in 1..TagSize |->
        (key[j] + 3 * key[j + TagSize] + nonce[((j - 1) % NonceSize) + 1]
           + SumBytes(ct) + Len(ct) + j) % 256]

\* gcm.Seal(dst, nonce, plaintext, nil): dst followed by ciphertext and tag
gcmSeal(key, dst, nonce, plaintext) ==
    LET ct == [i \in 1..Len(plaintext) |-> (plaintext[i] + gcmStream(key, nonce, i)) % 256]
    IN dst \o ct \o gcmTag(key, nonce, ct)

\* gcm.Open(nil, nonce, ciphertext, nil)
gcmOpen(key, nonce, ciphertext) ==
    IF Len(ciphertext) < TagSize THEN [err |-> ErrOpen, b |-> <<>>]
    ELSE LET n == Len(ciphertext) - TagSize
             ct == SubSeq(ciphertext, 1, n)
             tag == SubSeq(ciphertext, n + 1, Len(ciphertext))
         IN IF tag # gcmTag(key, nonce, ct) THEN [err |-> ErrOpen, b |-> <<>>]
            ELSE [err |-> NoErr,
                  b |-> [i \in 1..n |-> (ct[i] - gcmStream(key, nonce, i)) % 256]]

(***************************************************************************)
(* pkg/cryptutil                                                           *)
(***************************************************************************)
\* NewAES256 without the check of the key's length
NewAES256_noLengthCheck(hexKey) ==
    IF hexKey = <<>> THEN [err |-> ErrEmptyKey, key |-> <<>>]
    ELSE LET ret(d) ==
                 IF d.err # NoErr
                 THEN [err |-> Wrap("cryptutil: invalid hex key", d.err), key |-> <<>>]
                 ELSE [err |-> NoErr, key |-> d.b]
         IN ret(HexDecodeString(hexKey))

\* NewAES256: [err, key]; key is the key of the *AES256 returned, and
\* empty when the *AES256 returned is nil
NewAES256(hexKey) ==
    IF hexKey = <<>> THEN [err |-> ErrEmptyKey, key |-> <<>>]
    ELSE LET ret(d) ==
                 IF d.err # NoErr
                 THEN [err |-> Wrap("cryptutil: invalid hex key", d.err), key |-> <<>>]
                 ELSE IF Len(d.b) # KeySize
                 THEN [err |-> ErrInvalidKeyLength, key |-> <<>>]
                 ELSE [err |-> NoErr, key |-> d.b]
         IN ret(HexDecodeString(hexKey))

\* Encrypt that seals into an empty dst: the nonce is not stored with the data
Encrypt_noNoncePrefix(key, nonce, plaintext) ==
    IF Len(plaintext) = 0 THEN [err |-> ErrEmptyData, b |-> <<>>]
    ELSE IF Len(nonce) < NonceSize
    THEN [err |-> Wrap("cryptutil: failed to generate nonce", ErrRand), b |-> <<>>]
    ELSE [err |-> NoErr, b |-> gcmSeal(key, <<>>, nonce, plaintext)]

\* AES256.Encrypt; nonce is what io.ReadFull(rand.Reader, nonce) delivers:
\* NonceSize bytes, or fewer when the read fails
Encrypt(key, nonce, plaintext) ==
    IF Len(plaintext) = 0 THEN [err |-> ErrEmptyData, b |-> <<>>]
    ELSE IF Len(nonce) < NonceSize
    THEN [err |-> Wrap("cryptutil: failed to generate nonce", ErrRand), b |-> <<>>]
    ELSE [err |-> NoErr, b |-> gcmSeal(key, nonce, nonce, plaintext)]

\* AES256.EncryptString
EncryptString(key, nonce, plaintext) == Encrypt(key, nonce, plaintext)

\* AES256.EncryptToHex
EncryptToHex(key, nonce, plaintext) ==
    LET ret(encrypted) ==
            IF encrypted.err # NoErr THEN [err |-> encrypted.err, s |-> <<>>]
            ELSE [err |-> NoErr, s |-> HexEncodeToString(encrypted.b)]
    IN ret(Encrypt(key, nonce, plaintext))

\* AES256.EncryptStringToHex
EncryptStringToHex(key, nonce, plaintext) ==
    LET ret(encrypted) ==
            IF encrypted.err # NoErr THEN [err |-> encrypted.err, s |-> <<>>]
            ELSE [err |-> NoErr, s |-> HexEncodeToString(encrypted.b)]
    IN ret(EncryptString(key, nonce, plaintext))

\* Decrypt with the error of gcm.Open dropped
Decrypt_ignoresOpenError(key, data) ==
    IF Len(data) = 0 THEN [err |-> ErrEmptyData, b |-> <<>>]
    ELSE IF Len(data) < NonceSize
    THEN [err |-> Err("cryptutil: encrypted data too short"), b |-> <<>>]
    ELSE [err |-> NoErr,
          b |-> gcmOpen(key, SubSeq(data, 1, NonceSize),
                        SubSeq(data, NonceSize + 1, Len(data))).b]

\* AES256.Decrypt
Decrypt(key, data) ==
    IF Len(data) = 0 THEN [err |-> ErrEmptyData, b |-> <<>>]
    ELSE IF Len(data) < NonceSize
    THEN [err |-> Err("cryptutil: encrypted data too short"), b |-> <<>>]
    ELSE LET nonce == SubSeq(data, 1, NonceSize)
             ciphertext == SubSeq(data, NonceSize + 1, Len(data))
             ret(opened) ==
                 IF opened.err # NoErr
                 THEN [err |-> Wrap("cryptutil: decryption failed", opened.err), b |-> <<>>]
                 ELSE opened
         IN ret(gcmOpen(key, nonce, ciphertext))

\* AES256.DecryptToString
DecryptToString(key, data) ==
    LET ret(plaintext) ==
            IF plaintext.err # NoErr THEN [err |-> plaintext.err, s |-> <<>>]
            ELSE [err |-> NoErr, s |-> plaintext.b]
    IN ret(Decrypt(key, data))

\* AES256.DecryptHex
DecryptHex(key, hexData) ==
    LET ret(data) ==
            IF data.err # NoErr THEN [err |-> data.err, b |-> <<>>]
            ELSE Decrypt(key, data.b)
    IN ret(hexDecode(hexData))

\* AES256.DecryptHexToString
DecryptHexToString(key, hexData) ==
    LET ret(data) ==
            IF data.err # NoErr THEN [err |-> data.err, s |-> <<>>]
            ELSE DecryptToString(key, data.b)
    IN ret(hexDecode(hexData))

(***************************************************************************)
(* Configuration values, as reflect sees them.                             *)
(*   String    [k, s]          Struct  [k, f]: fields [exp, v] in          *)
(*   Ptr       [k, a]                  declaration order, exp = exported   *)
(*   Map       [k, a]          Slice   [k, a, lo, len]                     *)
(*   Int       [k, n]          Interface [k, v]                            *)
(*   Invalid   [k]: the zero reflect.Value (of a nil interface)            *)
(* a is an address of the heap or Nil.  heap[a] is the value a pointer     *)
(* refers to, the entries of a map [k |-> "MapObj", m], or the backing     *)
(* array of a slice [k |-> "Array", e].  Two values with the same address  *)
(* share what they refer to.                                               *)
(***************************************************************************)
Nil == 0
Str(s) == [k |-> "String", s |-> s]
Struct(f) == [k |-> "Struct", f |-> f]
Exported(v) == [exp |-> TRUE, v |-> v]
Unexported(v) == [exp |-> FALSE, v |-> v]
Ptr(a) == [k |-> "Ptr", a |-> a]
MapOf(a) == [k |-> "Map", a |-> a]
SliceOf(a, lo, len) == [k |-> "Slice", a |-> a, lo |-> lo, len |-> len]
IntVal(n) == [k |-> "Int", n |-> n]
Interface(v) == [k |-> "Interface", v |-> v]
Invalid == [k |-> "Invalid"]
MapObj(m) == [k |-> "MapObj", m |-> m]
Array(e) == [k |-> "Array", e |-> e]

\* val.Elem().Kind() of a pointer value
ElemKind(heap, val) == IF val.a = Nil THEN "Invalid" ELSE heap[val.a].k

(***************************************************************************)
(* pkg/config: resolution of one string.                                   *)
(* ev is the process environment: a function from the names that are set   *)
(* to their values.                                                        *)
(***************************************************************************)
\* os.Getenv: "" for a variable that is not set
Getenv(ev, envKey) == IF envKey \in DOMAIN ev THEN ev[envKey] ELSE <<>>

GetEnvValue(ev, envKey) ==
    LET ret(envValue) ==
            IF envValue = <<>> THEN [err |-> ErrNotFound(envKey), s |-> <<>>]
            ELSE [err |-> NoErr, s |-> envValue]
    IN ret(Getenv(ev, envKey))

decryptEnvValue(AESSecret, encryptedValue) ==
    LET ret(aesDecryptor) ==
            IF aesDecryptor.err # NoErr
            THEN [err |-> Wrap("failed to create AES decryptor", aesDecryptor.err),
                  s |-> <<>>]
            ELSE DecryptHexToString(aesDecryptor.key, encryptedValue)
    IN ret(NewAES256(AESSecret))

\* processEnvString whose last return gives "" for a string without prefix
processEnvString_clearsPlain(AESSecret, ev, value) ==
    IF HasPrefix(value, EnvPrefix)
    THEN GetEnvValue(ev, TrimPrefix(value, EnvPrefix))
    ELSE IF HasPrefix(value, EncryptedEnvPrefix)
    THEN LET ret(envValue) ==
                 IF envValue.err # NoErr THEN [err |-> envValue.err, s |-> <<>>]
                 ELSE decryptEnvValue(AESSecret, envValue.s)
         IN ret(GetEnvValue(ev, TrimPrefix(value, EncryptedEnvPrefix)))
    ELSE [err |-> NoErr, s |-> <<>>]

processEnvString(AESSecret, ev, value) ==
    IF HasPrefix(value, EnvPrefix)
    THEN GetEnvValue(ev, TrimPrefix(value, EnvPrefix))
    ELSE IF HasPrefix(value, EncryptedEnvPrefix)
    THEN LET ret(envValue) ==
                 IF envValue.err # NoErr THEN [err |-> envValue.err, s |-> <<>>]
                 ELSE decryptEnvValue(AESSecret, envValue.s)
         IN ret(GetEnvValue(ev, TrimPrefix(value, EncryptedEnvPrefix)))
    ELSE [err |-> NoErr, s |-> value]

(***************************************************************************)
(* pkg/config: the traversal.                                              *)
(* cx = [secret, ev, orc]: the parser's AESSecret, the environment and the *)
(* order in which each range over MapKeys() delivers the keys.             *)
(* st = [heap, err, pre, log, visits, open]: the heap as mutated so far and *)
(* the error returned (NoErr while running); and, recording the run: pre,  *)
(* the heap ProcessStruct started from; log, one entry per call of         *)
(* processEnvString with the location of the string, its argument and its  *)
(* result; visits, the number of maps ranged over; open, the map entries   *)
(* <<a, key>> whose struct value is being processed as the copy tmpValue.  *)
(* A location is <<a, i, ...>>: heap address, then field numbers, array    *)
(* index or map key.                                                       *)
(***************************************************************************)
\* the call p.processEnvString(value) for the string at loc
CallEnvString(st, cx, loc, value) ==
    LET ret(r) ==
            [r |-> r,
             st |-> [st EXCEPT !.err = r.err,
                               !.log = Append(@, [loc |-> loc, in |-> value,
                                                  out |-> r.s, err |-> r.err,
                                                  open |-> st.open])]]
    IN ret(processEnvString(cx.secret, cx.ev, value))

\* the keys of MapKeys() in the order the visit-th range delivers them
MapKeys(orc, visit, dom) ==
    LET perm == orc[((visit - 1) % Len(orc)) + 1]
    IN SelectSeq(perm, LAMBDA key : key \in dom)

RECURSIVE processStructFieldsFrom(_, _, _, _, _)
RECURSIVE processField(_, _, _, _, _)
RECURSIVE processMapFrom(_, _, _, _, _)
RECURSIVE processSliceFrom(_, _, _, _)

\* the loop of processStructFields from field i on; structVal lies at loc
processStructFieldsFrom(st, cx, structVal, loc, i) ==
    IF i > Len(structVal.f) THEN [st |-> st, v |-> structVal]
    ELSE IF ~structVal.f[i].exp   \* !field.CanInterface()
    THEN processStructFieldsFrom(st, cx, structVal, loc, i + 1)
    ELSE LET ret(r, done) ==
                 IF r.st.err # NoErr THEN [st |-> r.st, v |-> done]
                 ELSE processStructFieldsFrom(r.st, cx, done, loc, i + 1)
             set(r) == ret(r, [structVal EXCEPT !.f[i].v = r.v])
         IN set(processField(st, cx, structVal.f[i].v, Append(loc, i), TRUE))

\* processStructFields that does not return the error of processField
RECURSIVE processStructFieldsOn(_, _, _, _, _)
processStructFieldsOn(st, cx, structVal, loc, i) ==
    IF i > Len(structVal.f) THEN [st |-> st, v |-> structVal]
    ELSE IF ~structVal.f[i].exp
    THEN processStructFieldsOn(st, cx, structVal, loc, i + 1)
    ELSE LET ret(r) ==
                 processStructFieldsOn(r.st, cx, [structVal EXCEPT !.f[i].v = r.v],
                                       loc, i + 1)
         IN ret(processField(st, cx, structVal.f[i].v, Append(loc, i), TRUE))

processStructFields_ignoresError(st, cx, structVal, loc) ==
    processStructFieldsOn(st, cx, structVal, loc, 1)

processStructFields(st, cx, structVal, loc) ==
    processStructFieldsFrom(st, cx, structVal, loc, 1)

\* processMap that handles the first key only
processMap_firstKeyOnly(st, cx, mapField) ==
    IF mapField.a = Nil THEN st
    ELSE processMapFrom([st EXCEPT !.visits = @ + 1], cx, mapField.a,
                        SubSeq(MapKeys(cx.orc, st.visits + 1,
                                       DOMAIN st.heap[mapField.a].m), 1, 1), 1)

\* processMap; the map's entries are heap[a].m
processMap(st, cx, mapField) ==
    IF mapField.a = Nil THEN st
    ELSE processMapFrom([st EXCEPT !.visits = @ + 1], cx, mapField.a,
                        MapKeys(cx.orc, st.visits + 1, DOMAIN st.heap[mapField.a].m), 1)

\* processMap that sets the copy back before it looks at the error
processMapFrom_setsBeforeCheck(st, cx, a, keys, i) ==
    IF i > Len(keys) THEN st
    ELSE LET key == keys[i]
             mapValue == st.heap[a].m[key]
         IN IF mapValue.k \in {"Struct", "Ptr"}
            THEN LET tmp == IF mapValue.k = "Struct" THEN Append(st.open, <<a, key>>)
                                                     ELSE st.open
                     set(r) == [r.st EXCEPT !.heap[a].m[key] = r.v, !.open = st.open]
                     ret(r) ==
                         IF r.st.err # NoErr THEN set(r)
                         ELSE processMapFrom(set(r), cx, a, keys, i + 1)
                 IN ret(processField([st EXCEPT !.open = tmp], cx, mapValue,
                                     <<a, key>>, TRUE))
            ELSE IF mapValue.k = "String"
            THEN LET ret(c) ==
                         IF c.r.err # NoErr THEN c.st
                         ELSE processMapFrom([c.st EXCEPT !.heap[a].m[key] = Str(c.r.s)],
                                             cx, a, keys, i + 1)
                 IN ret(CallEnvString(st, cx, <<a, key>>, mapValue.s))
            ELSE processMapFrom(st, cx, a, keys, i + 1)

\* the loop of processMap from the i-th key on
processMapFrom(st, cx, a, keys, i) ==
    IF i > Len(keys) THEN st
    ELSE LET key == keys[i]
             mapValue == st.heap[a].m[key]
         IN IF mapValue.k \in {"Struct", "Ptr"}
            THEN \* tmpValue is a copy of mapValue; it is set back when processed
                 LET tmp == IF mapValue.k = "Struct" THEN Append(st.open, <<a, key>>)
                                                     ELSE st.open
                     ret(r) ==
                         IF r.st.err # NoErr THEN r.st
                         ELSE processMapFrom([r.st EXCEPT !.heap[a].m[key] = r.v,
                                                          !.open = st.open],
                                             cx, a, keys, i + 1)
                 IN ret(processField([st EXCEPT !.open = tmp], cx, mapValue,
                                     <<a, key>>, TRUE))
            ELSE IF mapValue.k = "String"
            THEN LET ret(c) ==
                         IF c.r.err # NoErr THEN c.st
                         ELSE processMapFrom([c.st EXCEPT !.heap[a].m[key] = Str(c.r.s)],
                                             cx, a, keys, i + 1)
                 IN ret(CallEnvString(st, cx, <<a, key>>, mapValue.s))
            ELSE processMapFrom(st, cx, a, keys, i + 1)

\* the loop of processSlice from element i (0-based) on
processSliceFrom(st, cx, sliceField, i) ==
    IF i >= sliceField.len THEN st
    ELSE LET at == sliceField.lo + i + 1
             ret(r, done) ==
                 IF r.st.err # NoErr THEN done
                 ELSE processSliceFrom(done, cx, sliceField, i + 1)
             set(r) == ret(r, [r.st EXCEPT !.heap[sliceField.a].e[at] = r.v])
         IN set(processField(st, cx, st.heap[sliceField.a].e[at],
                             <<sliceField.a, at>>, TRUE))

\* processSlice whose loop starts at the second element
processSlice_skipsFirst(st, cx, sliceField) == processSliceFrom(st, cx, sliceField, 1)

processSlice(st, cx, sliceField) == processSliceFrom(st, cx, sliceField, 0)

\* processField: the state after it and the value the field then holds.
\* canSet is field.CanSet(): a field processStructFields lets through, an
\* element of a slice and the copy of a map value are all settable.
processField(st, cx, field, loc, canSet) ==
    IF ~canSet THEN [st |-> st, v |-> field]
    ELSE IF field.k = "String"
    THEN IF field.s = <<>> THEN [st |-> st, v |-> field]
         ELSE LET ret(c) ==
                      IF c.r.err # NoErr THEN [st |-> c.st, v |-> field]
                      ELSE [st |-> c.st, v |-> Str(c.r.s)]
              IN ret(CallEnvString(st, cx, loc, field.s))
    ELSE IF field.k = "Struct"
    THEN processStructFields(st, cx, field, loc)
    ELSE IF field.k = "Ptr"
    THEN IF field.a # Nil /\ ElemKind(st.heap, field) = "Struct"
         THEN LET ret(r) == [st |-> [r.st EXCEPT !.heap[field.a] = r.v], v |-> field]
              IN ret(processStructFields(st, cx, st.heap[field.a], <<field.a>>))
         ELSE [st |-> st, v |-> field]
    ELSE IF field.k = "Map"
    THEN [st |-> processMap(st, cx, field), v |-> field]
    ELSE IF field.k = "Slice"
    THEN [st |-> processSlice(st, cx, field), v |-> field]
    ELSE [st |-> st, v |-> field]

\* the state in which a call starts
Start(heap) ==
    [heap |-> heap, err |-> NoErr, pre |-> heap, log |-> <<>>, visits |-> 0,
     open |-> <<>>]

\* ProcessStruct that checks val.Kind() only
ProcessStruct_noElemCheck(heap, cx, structPtr) ==
    IF structPtr.k # "Ptr" THEN [Start(heap) EXCEPT !.err = ErrUsage]
    ELSE processField(Start(heap), cx, structPtr, <<>>, TRUE).st

\* Parser.ProcessStruct(structPtr) on the heap: the state when it returns
ProcessStruct(heap, cx, structPtr) ==
    LET st == Start(heap)
    IN IF structPtr.k # "Ptr" \/ ElemKind(heap, structPtr) # "Struct"
       THEN [st EXCEPT !.err = ErrUsage]
       ELSE LET ret(r) == [r.st EXCEPT !.heap[structPtr.a] = r.v]
            IN ret(processStructFields(st, cx, heap[structPtr.a], <<structPtr.a>>))

(***************************************************************************)
(* pkg/config: LoadFromFile.  A file is absent, malformed, or holds a JSON *)
(* document; encoding/json is outside the repository, and a document is    *)
(* given by the struct value json.Unmarshal stores through the target.     *)
(***************************************************************************)
FileAbsent == [k |-> "absent"]
FileMalformed == [k |-> "malformed"]
FileOf(doc) == [k |-> "json", doc |-> doc]

ErrFileNotExists == Err("file not exists")
ErrUnmarshal == Err("encoding/json: syntax error")

\* LoadFromFile(filePath, secret, target): the state when it returns
LoadFromFile(file, heap, cx, target) ==
    LET st == Start(heap)
    IN IF file.k = "absent" THEN [st EXCEPT !.err = ErrFileNotExists]
       ELSE IF file.k = "malformed" THEN [st EXCEPT !.err = ErrUnmarshal]
       ELSE ProcessStruct([heap EXCEPT ![target.a] = file.doc], cx, target)

(***************************************************************************)
(* Inputs.                                                                 *)
(***************************************************************************)
\* names of environment variables: "TestKey", "B", "SECRET_KEY"
TestKey == <<84, 101, 115, 116, 75, 101, 121>>
VarB == <<66>>
SecretKey == <<83, 69, 67, 82, 69, 84, 95, 75, 69, 89>>

\* "1", "2", "3", "hello"
S1 == <<49>>
S2 == <<50>>
S3 == <<51>>
Hello == <<104, 101, 108, 108, 111>>

\* secrets: two keys of 32 bytes, one of 16 bytes, "zz", ""
HexKey1 == [i \in 1..(2 * KeySize) |-> IF i = 2 * KeySize THEN 49 ELSE 48]
HexKey2 == [i \in 1..(2 * KeySize) |-> IF i = 2 * KeySize THEN 50 ELSE 48]
HexKey16 == [i \in 1..KeySize |-> 48]
NotHex == <<122, 122>>
ValidSecrets == {HexKey1, HexKey2}
Secrets == ValidSecrets \cup {HexKey16, NotHex, <<>>}

\* what rand.Reader delivers for the nonce
Nonce1 == [i \in 1..NonceSize |-> i]

\* the hex ciphertext EncryptStringToHex gives for plaintext under hexKey
CipherHex(hexKey, plaintext) ==
    EncryptStringToHex(NewAES256(hexKey).key, Nonce1, plaintext).s

\* the values a variable is set to
EnvValues(name) ==
    IF name = TestKey THEN {<<>>, S2, EnvPrefix \o VarB}
    ELSE IF name = VarB THEN {S3}
    ELSE {CipherHex(HexKey1, Hello), CipherHex(HexKey2, S1),
          NotHex, <<48, 48, 102, 70>>}

EnvNames == {TestKey, VarB, SecretKey}

\* the strings of the documents
Leaves == {<<>>, S1, EnvPrefix \o TestKey, EnvPrefix \o VarB,
           EncryptedEnvPrefix \o SecretKey}

\* the strings of the second place of the documents with two
FewLeaves == {S1, EnvPrefix \o TestKey, EnvPrefix \o VarB}

\* type Config of the test: Foo, Bar{InnerFoo, InnerBar}
Config(foo, innerFoo, innerBar) ==
    Struct(<<Exported(Str(foo)),
             Exported(Struct(<<Exported(Str(innerFoo)), Exported(Str(innerBar))>>))>>)

\* one record of two string fields
Rec(x, y) == Struct(<<Exported(Str(x)), Exported(Str(y))>>)

\* A document in memory: the value handed to ProcessStruct and the heap.
Doc(root, heap) == [root |-> root, heap |-> heap]

\* &Config{...}
DocsConfig == {Doc(Ptr(1), <<Config(S1, x, S3)>>) : x \in Leaves}

\* struct { P, Q, N *Rec } with P == Q and N nil
DocsSharedPtr ==
    {Doc(Ptr(1), <<Struct(<<Exported(Ptr(2)), Exported(Ptr(2)), Exported(Ptr(Nil))>>),
                   Rec(x, S1)>>) : x \in Leaves}

\* struct { M map[int]string }
DocsMapString ==
    {Doc(Ptr(1), <<Struct(<<Exported(MapOf(2))>>),
                   MapObj([key \in {1, 2} |-> Str(IF key = 1 THEN x ELSE y)])>>)
       : x \in Leaves, y \in FewLeaves}

\* struct { M map[int]Rec; Last string }
DocsMapStruct ==
    {Doc(Ptr(1), <<Struct(<<Exported(MapOf(2)), Exported(Str(EnvPrefix \o VarB))>>),
                   MapObj([key \in {1, 2} |->
                              IF key = 1 THEN Rec(EnvPrefix \o TestKey, x)
                                         ELSE Rec(y, S1)])>>)
       : x \in Leaves, y \in FewLeaves}

\* struct { M map[int]*Rec; N map[int]*Rec }: the entries of M refer to one
\* record, to two, or the second to none; N is nil or is M
DocsMapPtr ==
    {Doc(Ptr(1), <<Struct(<<Exported(MapOf(2)),
                            Exported(MapOf(IF other = 4 THEN 2 ELSE Nil))>>),
                   MapObj([key \in {1, 2} |-> Ptr(IF key = 1 THEN 3 ELSE other)]),
                   Rec(x, S1), Rec(EnvPrefix \o VarB, x)>>)
       : x \in FewLeaves, other \in {3, 4, Nil}}

\* struct { M map[int]struct{ S []string; X string } }
DocsMapDeep ==
    {Doc(Ptr(1), <<Struct(<<Exported(MapOf(2))>>),
                   MapObj([key \in {1} |->
                              Struct(<<Exported(SliceOf(3, 0, 1)), Exported(Str(x))>>)]),
                   Array(<<Str(EnvPrefix \o TestKey)>>)>>)
       : x \in FewLeaves}

\* struct { S, T []string } over one array, T = S[1:]
DocsSlice ==
    {Doc(Ptr(1), <<Struct(<<Exported(SliceOf(2, 0, 2)), Exported(SliceOf(2, 1, 1)),
                            Exported(SliceOf(Nil, 0, 0))>>),
                   Array(<<Str(x), Str(y)>>)>>)
       : x \in Leaves, y \in FewLeaves}

\* struct { S []Rec; L []map[int]string }
DocsSliceStruct ==
    {Doc(Ptr(1), <<Struct(<<Exported(SliceOf(2, 0, 2)), Exported(SliceOf(3, 0, 1))>>),
                   Array(<<Rec(S1, x), Rec(y, S1)>>),
                   Array(<<MapOf(4)>>),
                   MapObj([key \in {2} |-> Str(x)])>>)
       : x \in Leaves, y \in FewLeaves}

\* struct { hidden string; inner struct{ X string }; N int; PS *string;
\*          MS map[int][]string; MM map[int]map[int]string; I interface{}; Pub string }
DocsOther ==
    {Doc(Ptr(1), <<Struct(<<Unexported(Str(x)),
                            Unexported(Struct(<<Exported(Str(x))>>)),
                            Exported(IntVal(7)),
                            Exported(Ptr(2)),
                            Exported(MapOf(3)),
                            Exported(MapOf(5)),
                            Exported(Interface(Str(x))),
                            Exported(Str(x))>>),
                   Str(x),
                   MapObj([key \in {1} |-> SliceOf(4, 0, 1)]),
                   Array(<<Str(x)>>),
                   MapObj([key \in {1} |-> MapOf(6)]),
                   MapObj([key \in {1} |-> Str(x)])>>)
       : x \in Leaves}

\* roots that are not a non-nil pointer to a struct: nil, a struct by value,
\* a nil *Config, and pointers to a map, a slice, a string and a pointer
DocsBadRoot ==
    {Doc(root, <<Config(S1, EnvPrefix \o TestKey, S3),
                 MapOf(3), MapObj([key \in {1} |-> Str(EnvPrefix \o TestKey)]),
                 SliceOf(5, 0, 1), Array(<<Str(EnvPrefix \o TestKey)>>),
                 Str(EnvPrefix \o TestKey), Ptr(1)>>)
       : root \in {Invalid, Config(S1, EnvPrefix \o TestKey, S3), Ptr(Nil),
                   Ptr(2), Ptr(4), Ptr(6), Ptr(7)}}

Docs == DocsConfig \cup DocsSharedPtr \cup DocsMapString \cup DocsMapStruct
          \cup DocsMapPtr \cup DocsSlice \cup DocsSliceStruct \cup DocsOther
          \cup DocsBadRoot \cup DocsMapDeep

\* var conf Config; LoadFromFile(path, secret, &conf)
ZeroConfig == Doc(Ptr(1), <<Config(<<>>, <<>>, <<>>)>>)

Files == {FileAbsent, FileMalformed}
           \cup {FileOf(Config(S1, x, S3)) : x \in Leaves \ {<<>>}}

\* orders of the keys of a map
KeyOrders == {<<1, 2>>, <<2, 1>>}
MaxMapVisits == 2
MaxCalls == 2

HasMap(heap) == \E a \in DOMAIN heap : heap[a].k = "MapObj" /\ Cardinality(DOMAIN heap[a].m) > 1

\* the orders in which the ranges of one call may deliver the keys
Orders(heap) ==
    IF HasMap(heap) THEN [1..MaxMapVisits -> KeyOrders] ELSE {<< <<1, 2>> >>}

(***************************************************************************)
(* The state machine.                                                      *)
(*   env          the process environment                                  *)
(*   parser       the Parser made by NewParser                              *)
(*   file         the configuration file                                   *)
(*   root, heap   the configuration value and what it refers to            *)
(*   calls        calls of ProcessStruct / LoadFromFile made so far        *)
(*   result       the error the last call returned                         *)
(*   last         record of the last call: the heap its resolution started *)
(*                from (pre), the secret it ran with, its log and the      *)
(*                number of maps it ranged over                            *)
(***************************************************************************)
VARIABLES env, parser, file, root, heap, calls, result, last

(***************************************************************************)
(* pkg/cryptutil used on its own:                                          *)
(*   aes          what NewAES256 returned last: the error and the key of   *)
(*                the *AES256 (hex is the string it was called with)       *)
(*   enc          the last call of an Encrypt method and what it returned  *)
(*   dec          the last call of a Decrypt method and what it returned   *)
(***************************************************************************)
VARIABLES aes, enc, dec

(***************************************************************************)
(* pkg/memcache:                                                           *)
(*   cache        the memCache New returned: its options and the entries   *)
(*                the ristretto cache holds, each with its value and the   *)
(*                time it expires                                          *)
(*   now          the time                                                 *)
(*   got          the last call of Get and what it returned                *)
(*   sets         for each key, the last call of Set and what it returned  *)
(***************************************************************************)
VARIABLES cache, now, got, sets

configVars == <<env, parser, file, root, heap, calls, result, last>>
cryptVars == <<aes, enc, dec>>
cacheVars == <<cache, now, got, sets>>
vars == <<configVars, cryptVars, cacheVars>>

NoAES == [made |-> FALSE, hex |-> <<>>, err |-> NoErr, key |-> <<>>]
NoOp == [op |-> "none"]

\* pkg/cryptutil not in use
CryptIdle == aes = NoAES /\ enc = NoOp /\ dec = NoOp

NoCache == [made |-> FALSE, err |-> NoErr, ttl |-> 0, maxCost |-> 0, items |-> <<>>]
NoGet == [key |-> "", found |-> FALSE, v |-> ""]

\* pkg/memcache not in use
CacheIdle == cache = NoCache /\ now = 0 /\ got = NoGet /\ sets = <<>>

NoParser == [made |-> FALSE, AESSecret |-> <<>>]
NoCall == [pre |-> <<>>, secret |-> <<>>, log |-> <<>>, visits |-> 0]

Init ==
    /\ env = <<>>
    /\ parser = NoParser
    /\ \/ \E d \in Docs : root = d.root /\ heap = d.heap /\ file = FileAbsent
       \/ \E f \in Files : root = ZeroConfig.root /\ heap = ZeroConfig.heap /\ file = f
    /\ calls = 0
    /\ result = NoErr
    /\ last = NoCall
    /\ CryptIdle
    /\ CacheIdle

\* os.Setenv(name, value), before the configuration is resolved
Setenv(name, value) ==
    /\ calls = 0
    /\ env' = [n \in DOMAIN env \cup {name} |-> IF n = name THEN value ELSE env[n]]
    /\ UNCHANGED <<parser, file, root, heap, calls, result, last>>
    /\ UNCHANGED <<cryptVars, cacheVars>>

\* parser := NewParser(aesSecret)
NewParser(aesSecret) ==
    /\ ~parser.made
    /\ calls = 0
    /\ parser' = [made |-> TRUE, AESSecret |-> aesSecret]
    /\ UNCHANGED <<env, file, root, heap, calls, result, last>>
    /\ UNCHANGED <<cryptVars, cacheVars>>

Returned(st, secret) ==
    /\ heap' = st.heap
    /\ result' = st.err
    /\ last' = [pre |-> st.pre, secret |-> secret, log |-> st.log, visits |-> st.visits]
    /\ calls' = calls + 1

\* parser.ProcessStruct(root)
CallProcessStruct ==
    /\ parser.made
    /\ calls < MaxCalls
    /\ \E orc \in Orders(heap) :
          Returned(ProcessStruct(heap, [secret |-> parser.AESSecret, ev |-> env, orc |-> orc],
                                 root),
                   parser.AESSecret)
    /\ UNCHANGED <<env, parser, file, root>>
    /\ UNCHANGED <<cryptVars, cacheVars>>

\* LoadFromFile(path, secret, root)
CallLoadFromFile(secret) ==
    /\ calls = 0
    /\ root = ZeroConfig.root /\ heap = ZeroConfig.heap
    /\ \E orc \in Orders(heap) :
          Returned(LoadFromFile(file, heap, [secret |-> secret, ev |-> env, orc |-> orc], root),
                   secret)
    /\ UNCHANGED <<env, parser, file, root>>
    /\ UNCHANGED <<cryptVars, cacheVars>>

Next ==
    \/ \E name \in EnvNames : \E value \in EnvValues(name) : Setenv(name, value)
    \/ \E aesSecret \in Secrets : NewParser(aesSecret)
    \/ CallProcessStruct
    \/ \E secret \in Secrets : CallLoadFromFile(secret)

Spec == Init /\ [][Next]_vars

(***************************************************************************)
(* pkg/cryptutil on its own: a program makes ciphers with NewAES256 and    *)
(* calls their Encrypt and Decrypt methods, as the command and the tests   *)
(* do: it encrypts, and then decrypts, with the same cipher or another.    *)
(***************************************************************************)
\* a key of 64 bytes, hex encoded; "abc": hex digits of odd length
HexKey64 == [i \in 1..(4 * KeySize) |-> 48]
OddHex == <<97, 98, 99>>
\* a key of 32 bytes in upper-case digits
HexKeyUpper == [i \in 1..(2 * KeySize) |-> IF i % 2 = 0 THEN 70 ELSE 65]
Keys == Secrets \cup {HexKey64, OddHex, HexKeyUpper}

\* plaintexts: "", "1", "hello", and bytes that are no text
Plaintexts == {<<>>, S1, Hello, <<0, 255, 128>>}

\* what rand.Reader delivers: two nonces, and a read that fails
Nonce2 == [i \in 1..NonceSize |-> 255 - i]
RandReads == {Nonce1, Nonce2, <<>>}

\* data corrupted as in the test: the last byte with its low bit flipped
Corrupted(data) ==
    [i \in 1..Len(data) |->
        IF i < Len(data) THEN data[i]
        ELSE IF data[i] % 2 = 0 THEN data[i] + 1 ELSE data[i] - 1]

\* what a program hands to a Decrypt method: what the last Encrypt method
\* returned, that corrupted, nothing, or three bytes
Inputs ==
    {<<>>, <<1, 2, 3>>, <<48, 49>>}
       \cup (IF enc.op # "none" /\ enc.err = NoErr THEN {enc.out, Corrupted(enc.out)}
                                                   ELSE {})

CryptInit ==
    /\ env = <<>>
    /\ parser = NoParser
    /\ root = ZeroConfig.root /\ heap = ZeroConfig.heap /\ file = FileAbsent
    /\ calls = 0
    /\ result = NoErr
    /\ last = NoCall
    /\ CryptIdle
    /\ CacheIdle

\* aes, err := NewAES256(hexKey)
CallNewAES256(hexKey) ==
    /\ dec = NoOp
    /\ aes' = [made |-> TRUE, hex |-> hexKey, err |-> NewAES256(hexKey).err,
               key |-> NewAES256(hexKey).key]
    /\ UNCHANGED <<enc, dec>>
    /\ UNCHANGED <<configVars, cacheVars>>

\* the record of a call of the method op on the cipher aes; rand is what
\* the call read from rand.Reader
Called(op, in, rand, r, out) ==
    [op |-> op, key |-> aes.key, in |-> in, rand |-> rand, err |-> r.err, out |-> out]

\* aes.Encrypt(plaintext)
CallEncrypt(plaintext, nonce) ==
    /\ aes.made /\ aes.err = NoErr
    /\ dec = NoOp
    /\ LET ret(r) == enc' = Called("Encrypt", plaintext, nonce, r, r.b)
       IN ret(Encrypt(aes.key, nonce, plaintext))
    /\ UNCHANGED <<aes, dec>>
    /\ UNCHANGED <<configVars, cacheVars>>

\* aes.EncryptString(plaintext)
CallEncryptString(plaintext, nonce) ==
    /\ aes.made /\ aes.err = NoErr
    /\ dec = NoOp
    /\ LET ret(r) == enc' = Called("EncryptString", plaintext, nonce, r, r.b)
       IN ret(EncryptString(aes.key, nonce, plaintext))
    /\ UNCHANGED <<aes, dec>>
    /\ UNCHANGED <<configVars, cacheVars>>

\* aes.EncryptToHex(plaintext)
CallEncryptToHex(plaintext, nonce) ==
    /\ aes.made /\ aes.err = NoErr
    /\ dec = NoOp
    /\ LET ret(r) == enc' = Called("EncryptToHex", plaintext, nonce, r, r.s)
       IN ret(EncryptToHex(aes.key, nonce, plaintext))
    /\ UNCHANGED <<aes, dec>>
    /\ UNCHANGED <<configVars, cacheVars>>

\* aes.EncryptStringToHex(plaintext)
CallEncryptStringToHex(plaintext, nonce) ==
    /\ aes.made /\ aes.err = NoErr
    /\ dec = NoOp
    /\ LET ret(r) == enc' = Called("EncryptStringToHex", plaintext, nonce, r, r.s)
       IN ret(EncryptStringToHex(aes.key, nonce, plaintext))
    /\ UNCHANGED <<aes, dec>>
    /\ UNCHANGED <<configVars, cacheVars>>

\* aes.Decrypt(data)
CallDecrypt(data) ==
    /\ aes.made /\ aes.err = NoErr
    /\ LET ret(r) == dec' = Called("Decrypt", data, <<>>, r, r.b)
       IN ret(Decrypt(aes.key, data))
    /\ UNCHANGED <<aes, enc>>
    /\ UNCHANGED <<configVars, cacheVars>>

\* aes.DecryptToString(data)
CallDecryptToString(data) ==
    /\ aes.made /\ aes.err = NoErr
    /\ LET ret(r) == dec' = Called("DecryptToString", data, <<>>, r, r.s)
       IN ret(DecryptToString(aes.key, data))
    /\ UNCHANGED <<aes, enc>>
    /\ UNCHANGED <<configVars, cacheVars>>

\* aes.DecryptHex(hexData)
CallDecryptHex(hexData) ==
    /\ aes.made /\ aes.err = NoErr
    /\ LET ret(r) == dec' = Called("DecryptHex", hexData, <<>>, r, r.b)
       IN ret(DecryptHex(aes.key, hexData))
    /\ UNCHANGED <<aes, enc>>
    /\ UNCHANGED <<configVars, cacheVars>>

\* aes.DecryptHexToString(hexData)
CallDecryptHexToString(hexData) ==
    /\ aes.made /\ aes.err = NoErr
    /\ LET ret(r) == dec' = Called("DecryptHexToString", hexData, <<>>, r, r.s)
       IN ret(DecryptHexToString(aes.key, hexData))
    /\ UNCHANGED <<aes, enc>>
    /\ UNCHANGED <<configVars, cacheVars>>

CryptNext ==
    \/ \E hexKey \in Keys : CallNewAES256(hexKey)
    \/ \E plaintext \in Plaintexts : \E nonce \in RandReads : CallEncrypt(plaintext, nonce)
    \/ \E plaintext \in Plaintexts : \E nonce \in RandReads : CallEncryptString(plaintext, nonce)
    \/ \E plaintext \in Plaintexts : \E nonce \in RandReads : CallEncryptToHex(plaintext, nonce)
    \/ \E plaintext \in Plaintexts : \E nonce \in RandReads :
          CallEncryptStringToHex(plaintext, nonce)
    \/ \E data \in Inputs : CallDecrypt(data)
    \/ \E data \in Inputs : CallDecryptToString(data)
    \/ \E hexData \in Inputs : CallDecryptHex(hexData)
    \/ \E hexData \in Inputs : CallDecryptHexToString(hexData)

CryptSpec == CryptInit /\ [][CryptNext]_vars

(***************************************************************************)
(* Vocabulary of the properties.                                           *)
(***************************************************************************)
IsIndirection(s) == HasPrefix(s, EnvPrefix) \/ HasPrefix(s, EncryptedEnvPrefix)

\* the root is a non-nil pointer to a struct
ValidRoot(h) == root.k = "Ptr" /\ root.a # Nil /\ h[root.a].k = "Struct"

\* the last call got as far as ProcessStruct
Resolved == calls > 0 /\ result \notin {ErrFileNotExists, ErrUnmarshal}

\* The strings below value v, which lies at loc, each with its location.
\*   "tree":    every string: through all struct fields, pointers, maps,
\*              slices and interfaces
\*   "nesting": through exported struct fields, maps, slices and non-nil
\*              pointers, whatever they hold
\*   "walk":    through exported struct fields, pointers to structs, slices,
\*              and map values that are strings, structs or pointers
RECURSIVE StrLocs(_, _, _, _)
StrLocs(h, v, loc, mode) ==
    IF v.k = "String" THEN {[loc |-> loc, s |-> v.s]}
    ELSE IF v.k = "Struct"
    THEN UNION {StrLocs(h, v.f[i].v, Append(loc, i), mode) :
                  i \in {j \in 1..Len(v.f) : v.f[j].exp \/ mode = "tree"}}
    ELSE IF v.k = "Ptr"
    THEN IF v.a = Nil \/ (mode = "walk" /\ h[v.a].k # "Struct") THEN {}
         ELSE StrLocs(h, h[v.a], <<v.a>>, mode)
    ELSE IF v.k = "Map"
    THEN IF v.a = Nil THEN {}
         ELSE UNION {StrLocs(h, h[v.a].m[key], <<v.a, key>>, mode) :
                       key \in {x \in DOMAIN h[v.a].m :
                                  mode = "walk" => h[v.a].m[x].k \in {"String", "Struct", "Ptr"}}}
    ELSE IF v.k = "Slice"
    THEN UNION {StrLocs(h, h[v.a].e[i], <<v.a, i>>, mode) :
                  i \in (v.lo + 1)..(v.lo + v.len)}
    ELSE IF v.k = "Interface" /\ mode = "tree"
    THEN StrLocs(h, v.v, Append(loc, 1), mode)
    ELSE {}

\* the strings of the configuration value in heap h
Strings(h, mode) == IF root.k = "Ptr" THEN StrLocs(h, root, <<>>, mode) ELSE {}

\* the value at a location
RECURSIVE ValueIn(_, _, _)
ValueIn(obj, loc, i) ==
    IF i > Len(loc) THEN obj
    ELSE ValueIn(IF obj.k = "Struct" THEN obj.f[loc[i]].v
                 ELSE IF obj.k = "MapObj" THEN obj.m[loc[i]]
                 ELSE IF obj.k = "Array" THEN obj.e[loc[i]]
                 ELSE obj.v, loc, i + 1)

StrAt(h, loc) == ValueIn(h[loc[1]], loc, 2).s

\* the entries of the last call's log for the string at loc
LogAt(loc) == {i \in DOMAIN last.log : last.log[i].loc = loc}
Min(S) == CHOOSE x \in S : \A y \in S : x <= y
Max(S) == CHOOSE x \in S : \A y \in S : x >= y

\* the variable an indirection names
EnvKeyOf(s) ==
    IF HasPrefix(s, EnvPrefix) THEN TrimPrefix(s, EnvPrefix)
    ELSE TrimPrefix(s, EncryptedEnvPrefix)

\* the last call, run again with another secret and other orders of the keys
Rerun(secret, orc) == ProcessStruct(last.pre, [secret |-> secret, ev |-> env, orc |-> orc], root)

(***************************************************************************)
(* C1. After ProcessStruct returns success, every string that started with *)
(* "#ENV:" or "#EncryptedENV:" and is reachable from the root through any  *)
(* nesting of exported struct fields, maps, slices and non-nil pointers    *)
(* has been replaced by its resolved value, and no such string remains.    *)
(***************************************************************************)
C1_AllIndirectionsReplaced ==
    (Resolved /\ result = NoErr) =>
        /\ \A l \in Strings(last.pre, "nesting") :
              IsIndirection(l.s) =>
                 StrAt(heap, l.loc) = processEnvString(last.secret, env, l.s).s
        /\ \A l \in Strings(heap, "nesting") : ~IsIndirection(l.s)

\* C1 as amended: after success, every string that started with a marker and
\* that the walk reaches (through exported struct fields, non-nil pointers to
\* structs, slice elements, and map values that are strings, structs or
\* pointers to structs) was passed to processEnvString as it stood and holds
\* the result of the last resolution made at its location.
C1_WalkedIndirectionsReplaced ==
    (Resolved /\ result = NoErr) =>
        \A l \in Strings(last.pre, "walk") :
           IsIndirection(l.s) =>
              /\ LogAt(l.loc) # {}
              /\ last.log[Min(LogAt(l.loc))].in = l.s
              /\ StrAt(heap, l.loc) = last.log[Max(LogAt(l.loc))].out

\* a successful call that resolved an indirection held in a map or a slice
C1_Witness ==
    /\ Resolved /\ result = NoErr
    /\ \E l \in Strings(last.pre, "walk") :
          /\ IsIndirection(l.s)
          /\ heap[l.loc[1]].k \in {"MapObj", "Array"}
          /\ StrAt(heap, l.loc) # l.s

(***************************************************************************)
(* C2. If variable k is set to v, resolving "#ENV:" + k yields exactly v;  *)
(* if k is unset, it fails with the missing-variable error naming k.       *)
(***************************************************************************)
C2_EnvLookup ==
    \A i \in DOMAIN last.log :
       LET c == last.log[i]
           k == TrimPrefix(c.in, EnvPrefix)
       IN HasPrefix(c.in, EnvPrefix) =>
             IF k \in DOMAIN env THEN c.err = NoErr /\ c.out = env[k]
                                 ELSE c.err = ErrNotFound(k)

(***************************************************************************)
(* C3. Every string of the tree that starts with neither marker has the    *)
(* same value after ProcessStruct returns, with success or with an error;  *)
(* and on a tree of such strings only, ProcessStruct returns success and   *)
(* leaves the whole tree unchanged.                                        *)
(***************************************************************************)
C3_NonIndirectionUntouched ==
    Resolved =>
        /\ \A l \in Strings(last.pre, "tree") :
              ~IsIndirection(l.s) => StrAt(heap, l.loc) = l.s
        /\ (ValidRoot(last.pre) /\ \A l \in Strings(last.pre, "tree") : ~IsIndirection(l.s))
              => (result = NoErr /\ heap = last.pre)

\* a call that resolved an indirection and left a plain string beside it
C3_Witness ==
    /\ Resolved
    /\ heap # last.pre
    /\ \E l \in Strings(last.pre, "walk") : l.s = S1 /\ LogAt(l.loc) # {}

(***************************************************************************)
(* C4. Resolution is single-pass: a value written as the result of         *)
(* resolving an indirection is never itself looked up or decrypted again   *)
(* in the same call, also when records or sequences are shared.            *)
(***************************************************************************)
C4_SinglePass ==
    \A i, j \in DOMAIN last.log :
       (i < j /\ last.log[i].loc = last.log[j].loc /\ IsIndirection(last.log[i].in))
          => ~IsIndirection(last.log[j].in)

(***************************************************************************)
(* C5. When variable k holds the hex ciphertext of p under the valid key   *)
(* K, resolving "#EncryptedENV:" + k yields p with a parser whose secret   *)
(* is K; with another valid key it returns the decryption-failed error and *)
(* the field is not replaced.                                              *)
(***************************************************************************)
C5_EncryptedLookup ==
    \A i \in DOMAIN last.log :
       LET c == last.log[i]
           k == TrimPrefix(c.in, EncryptedEnvPrefix)
       IN (HasPrefix(c.in, EncryptedEnvPrefix) /\ k \in DOMAIN env) =>
             \A K \in ValidSecrets : \A p \in {Hello, S1} :
                env[k] = CipherHex(K, p) =>
                   IF last.secret = K THEN c.err = NoErr /\ c.out = p
                   ELSE last.secret \in ValidSecrets =>
                           /\ c.err.e = "cryptutil: decryption failed"
                           /\ result = c.err
                           /\ StrAt(heap, c.loc) = c.in

\* an encrypted indirection decrypted to "hello" and stored
C5_Witness ==
    \E i \in DOMAIN last.log :
       /\ HasPrefix(last.log[i].in, EncryptedEnvPrefix)
       /\ last.log[i].out = Hello
       /\ StrAt(heap, last.log[i].loc) = Hello

(***************************************************************************)
(* C6. An error of resolving an indirection is a missing-variable error    *)
(* if and only if the variable is absent; an empty, non-hex or wrong-      *)
(* length secret, a non-hex or too short ciphertext and a failed           *)
(* authentication each give a cryptographic error, never that one.         *)
(***************************************************************************)
CryptoErrors ==
    {"failed to create AES decryptor", "cryptutil: invalid hex data",
     "cryptutil: encrypted data too short", "cryptutil: decryption failed"}

C6_ErrorClasses ==
    \A i \in DOMAIN last.log :
       LET c == last.log[i]
       IN c.err # NoErr =>
             /\ (c.err.e = "environment variable not found") <=> (EnvKeyOf(c.in) \notin DOMAIN env)
             /\ (EnvKeyOf(c.in) \in DOMAIN env) => c.err.e \in CryptoErrors

(***************************************************************************)
(* C7. ProcessStruct stops at the first failing indirection and returns    *)
(* its error: every indirection before it has been replaced by its         *)
(* resolved value, and no string after it was looked up or modified.       *)
(***************************************************************************)
\* the lookups of the last call before the failing one
Before == 1..(Len(last.log) - 1)
\* the last call failed on a lookup
FailedLookup == Resolved /\ result # NoErr /\ result # ErrUsage

\* the string at loc was never handed to processEnvString and is unchanged
Untouched(l) == LogAt(l.loc) = {} => StrAt(heap, l.loc) = l.s

C7_PrefixResolved ==
    FailedLookup =>
        /\ last.log # <<>> /\ last.log[Len(last.log)].err = result
        /\ \A i \in Before :
              /\ last.log[i].err = NoErr
              /\ StrAt(heap, last.log[i].loc) = last.log[Max(LogAt(last.log[i].loc) \cap Before)].out
        /\ \A l \in Strings(last.pre, "tree") : Untouched(l)

\* C7 as amended: the same, except that the fields of a struct-valued map
\* entry that is still being resolved when the lookup fails are not replaced:
\* the copy they were resolved in is dropped.
InDroppedCopy(loc) ==
    \E n \in DOMAIN last.log[Len(last.log)].open :
       Len(loc) > 2 /\ SubSeq(loc, 1, 2) = last.log[Len(last.log)].open[n]

C7_PrefixResolvedButDroppedCopy ==
    FailedLookup =>
        /\ last.log # <<>> /\ last.log[Len(last.log)].err = result
        /\ \A i \in Before :
              /\ last.log[i].err = NoErr
              /\ ~InDroppedCopy(last.log[i].loc) =>
                    StrAt(heap, last.log[i].loc)
                       = last.log[Max(LogAt(last.log[i].loc) \cap Before)].out
        /\ \A l \in Strings(last.pre, "tree") : Untouched(l)

\* a call that replaced one indirection and failed on a later one
C7_Witness ==
    /\ FailedLookup
    /\ \E i \in Before :
          /\ IsIndirection(last.log[i].in)
          /\ ~InDroppedCopy(last.log[i].loc)
          /\ StrAt(heap, last.log[i].loc) = last.log[i].out

(***************************************************************************)
(* C8. ProcessStruct on a root that is not a non-nil pointer to a struct   *)
(* returns the usage error before any lookup or decryption and leaves      *)
(* everything reachable from the value unchanged.                          *)
(***************************************************************************)
C8_BadRootRejected ==
    (Resolved /\ ~ValidRoot(last.pre)) =>
        /\ result = ErrUsage
        /\ last.log = <<>>
        /\ heap = last.pre

\* ProcessStruct was called with a pointer to something that is no struct
C8_Witness ==
    /\ Resolved /\ root.k = "Ptr" /\ root.a # Nil /\ ~ValidRoot(last.pre)
    /\ result = ErrUsage

(***************************************************************************)
(* C9. On a tree without "#EncryptedENV:" strings whose "#ENV:" strings    *)
(* all name set variables, ProcessStruct succeeds with any secret, valid   *)
(* or not, and resolves the tree as it does with a valid secret.           *)
(***************************************************************************)
C9_SecretNotNeeded ==
    (Resolved /\ ValidRoot(last.pre)
       /\ \A l \in Strings(last.pre, "tree") :
             /\ ~HasPrefix(l.s, EncryptedEnvPrefix)
             /\ HasPrefix(l.s, EnvPrefix) => TrimPrefix(l.s, EnvPrefix) \in DOMAIN env)
    => /\ result = NoErr
       /\ \A secret \in Secrets : \A orc \in Orders(last.pre) :
             Rerun(secret, orc).err = NoErr /\ Rerun(secret, orc).heap = heap

(***************************************************************************)
(* C10. For a fixed tree, environment and secret, every order in which the *)
(* entries of the maps are visited gives the same result (success or the   *)
(* same error) and the same final tree.                                    *)
(***************************************************************************)
C10_OrderIndependent ==
    Resolved =>
        \A orc \in Orders(last.pre) :
           Rerun(last.secret, orc).err = result /\ Rerun(last.secret, orc).heap = heap

\* C10 as amended: when the call returns success, every order of the map
\* entries returns success and gives the same final tree.
C10_OrderIndependentOnSuccess ==
    (Resolved /\ result = NoErr) =>
        \A orc \in Orders(last.pre) :
           Rerun(last.secret, orc).err = NoErr /\ Rerun(last.secret, orc).heap = heap

\* a successful call that replaced both entries of a map
C10_Witness ==
    /\ Resolved /\ result = NoErr
    /\ \E a \in DOMAIN heap :
          /\ heap[a].k = "MapObj"
          /\ DOMAIN heap[a].m = {1, 2}
          /\ \A key \in {1, 2} : heap[a].m[key] # last.pre[a].m[key]

(***************************************************************************)
(* Vocabulary of the properties of processMap.                             *)
(***************************************************************************)
\* the last lookup of the last call
LastLookup == last.log[Len(last.log)]

\* loc lies in the map entry e = <<a, key>>
InEntry(loc, e) == Len(loc) > 2 /\ SubSeq(loc, 1, 2) = e

\* the map entry e, whose copy was being resolved when the call failed, was
\* not resolved earlier in the call: every lookup in it was made in that copy
FirstResolution(e) ==
    \A i \in DOMAIN last.log :
       InEntry(last.log[i].loc, e) =>
          \A j \in i..Len(last.log) :
             \E n \in DOMAIN last.log[j].open : last.log[j].open[n] = e

\* the addresses the pointers held in value v refer to
RECURSIVE PtrsIn(_)
PtrsIn(v) ==
    IF v.k = "Ptr" THEN {v.a}
    ELSE IF v.k = "Struct" THEN UNION {PtrsIn(v.f[i].v) : i \in DOMAIN v.f}
    ELSE IF v.k = "Array" THEN UNION {PtrsIn(v.e[i]) : i \in DOMAIN v.e}
    ELSE IF v.k = "MapObj" THEN UNION {PtrsIn(v.m[key]) : key \in DOMAIN v.m}
    ELSE IF v.k = "Interface" THEN PtrsIn(v.v)
    ELSE {}

\* the maps of heap h
Maps(h) == {a \in DOMAIN h : h[a].k = "MapObj"}

\* the record at p is referred to by values of maps only
RecordOfEntries(h, p) ==
    /\ h[p].k = "Struct"
    /\ \E a \in Maps(h) : \E key \in DOMAIN h[a].m : h[a].m[key] = Ptr(p)
    /\ \A a \in DOMAIN h \ Maps(h) : p \notin PtrsIn(h[a])
    /\ root # Ptr(p)

\* no map has lost or gained a key
KeySetsKept ==
    \A a \in Maps(last.pre) :
       heap[a].k = "MapObj" /\ DOMAIN heap[a].m = DOMAIN last.pre[a].m

\* a record entry that was being resolved when the call failed has the
\* value it had
FailedRecordEntryKept ==
    FailedLookup =>
       \A n \in DOMAIN LastLookup.open :
          LET e == LastLookup.open[n]
          IN FirstResolution(e) => heap[e[1]].m[e[2]] = last.pre[e[1]].m[e[2]]

\* an entry that is a reference refers to what it referred to
ReferencesKept ==
    \A a \in Maps(last.pre) : \A key \in DOMAIN last.pre[a].m :
       last.pre[a].m[key].k = "Ptr" => heap[a].m[key] = last.pre[a].m[key]

\* the record an entry refers to, in which the call failed at its first
\* lookup of the failing field, has the contents it had
FailedReferredRecordKept ==
    FailedLookup =>
       \A p \in DOMAIN last.pre :
          (/\ RecordOfEntries(last.pre, p)
           /\ LastLookup.loc[1] = p
           /\ LogAt(LastLookup.loc) = {Len(last.log)})
             => heap[p] = last.pre[p]

(***************************************************************************)
(* C14. Map values that are records or references to records are resolved  *)
(* copy-on-write: processMap never modifies the value (or the record it    *)
(* refers to) that is stored in the map before reinsertion; the entry      *)
(* changes only by being replaced wholesale under the same key after the   *)
(* duplicate resolved without error, so when resolving an entry fails that *)
(* entry (and the record it refers to) still has its original contents,    *)
(* and the map's key set is never changed.                                 *)
(***************************************************************************)
C14_CopyOnWrite ==
    Resolved =>
       /\ KeySetsKept
       /\ FailedRecordEntryKept
       /\ ReferencesKept
       /\ FailedReferredRecordKept

\* C14 as amended: the same for the entry itself; the record an entry
\* refers to is resolved in place and keeps, when resolving fails, the
\* fields resolved before the failure.
C14_CopyOnWriteOfEntries ==
    Resolved =>
       /\ KeySetsKept
       /\ FailedRecordEntryKept
       /\ ReferencesKept

\* a call failed in a record entry of a map after it had resolved an
\* indirection in the copy of that entry, and the entry has the value it had
C14_Witness ==
    /\ FailedLookup
    /\ LastLookup.open # <<>>
    /\ FirstResolution(LastLookup.open[1])
    /\ \E i \in Before :
          /\ InEntry(last.log[i].loc, LastLookup.open[1])
          /\ IsIndirection(last.log[i].in)
          /\ last.log[i].out # last.log[i].in
          /\ StrAt(heap, last.log[i].loc) = last.log[i].in

(***************************************************************************)
(* pkg/memcache.  The ristretto cache is outside the repository; it is     *)
(* modelled by what memCache relies on.  SetWithTTL with a negative ttl    *)
(* does nothing and returns false.  A value set for a key the cache holds  *)
(* replaces the entry at once.  A new entry goes through the buffer of     *)
(* writes: when the buffer is full it is dropped and SetWithTTL returns    *)
(* false, otherwise SetWithTTL returns true and the policy decides when    *)
(* the write is applied (which Wait awaits): it adds the entry while the   *)
(* cost held stays within MaxCost, and otherwise either evicts another to  *)
(* make room or, when an entry held has been read more often than the new  *)
(* one, rejects the new one.  Get finds an entry that is held and          *)
(* whose time of expiry, if it has one, has not passed; a ticker removes   *)
(* the entries whose time has passed.                                      *)
(* c is the memCache, t the time of the call, fate what the library        *)
(* decides: [buffered, admit, victim].                                     *)
(***************************************************************************)
CacheKeys == {"foo", "baz"}
CacheValues == {"bar", "qux"}
\* WithTtl: 5 s as in the test is 1; none, and a negative one
Ttls == {-1, 0, 1, 2}
\* WithMaxCost
MaxCosts == {0, 1, 2}
MaxTime == 3

Fates == [buffered : BOOLEAN, admit : BOOLEAN, victim : CacheKeys]

\* the entries of f without key
Without(f, key) == [x \in DOMAIN f \ {key} |-> f[x]]
\* the entries of f and key with entry e
With(f, key, e) == [x \in DOMAIN f \cup {key} |-> IF x = key THEN e ELSE f[x]]

\* an entry's time of expiry has passed: time.Now().After(expiration)
Expired(e, t) == e.exp # 0 /\ t > e.exp

\* the policy has room for one more entry of this cost
Room(c, cost) == c.maxCost - Cardinality(DOMAIN c.items) - cost >= 0

\* ristretto.NewCache: refuses a MaxCost of zero
NewCache(maxCost) ==
    IF maxCost = 0 THEN Err("MaxCost can't be zero") ELSE NoErr

\* New(WithTtl(ttl), WithMaxCost(maxCost))
New(ttl, maxCost) ==
    LET ret(err) ==
            IF err # NoErr THEN [NoCache EXCEPT !.err = err]
            ELSE [made |-> TRUE, err |-> NoErr, ttl |-> ttl, maxCost |-> maxCost,
                  items |-> <<>>]
    IN ret(NewCache(maxCost))

\* cache.SetWithTTL(key, value, cost, ttl) followed by cache.Wait():
\* the result and the cache after it
SetWithTTL(c, t, key, value, cost, ttl, fate) ==
    LET e == [v |-> value, exp |-> IF ttl = 0 THEN 0 ELSE t + ttl]
    IN IF ttl < 0 THEN [result |-> FALSE, c |-> c]
       ELSE IF key \in DOMAIN c.items
       THEN [result |-> TRUE, c |-> [c EXCEPT !.items[key] = e]]
       ELSE IF ~fate.buffered THEN [result |-> FALSE, c |-> c]
       ELSE IF cost > c.maxCost THEN [result |-> TRUE, c |-> c]
       ELSE IF Room(c, cost)
       THEN [result |-> TRUE, c |-> [c EXCEPT !.items = With(@, key, e)]]
       ELSE IF ~fate.admit \/ fate.victim \notin DOMAIN c.items
       THEN [result |-> TRUE, c |-> c]
       ELSE [result |-> TRUE,
             c |-> [c EXCEPT !.items = With(Without(@, fate.victim), key, e)]]

\* cache.Get(key) of ristretto
CacheGet(c, t, key) ==
    IF key \in DOMAIN c.items /\ ~Expired(c.items[key], t)
    THEN [found |-> TRUE, v |-> c.items[key].v]
    ELSE [found |-> FALSE, v |-> ""]

\* memCache.Set that sets without a time to live
Set_noTtl(c, t, key, value, fate) == SetWithTTL(c, t, key, value, 1, 0, fate)

\* memCache.Set
Set(c, t, key, value, fate) == SetWithTTL(c, t, key, value, 1, c.ttl, fate)

\* memCache.Get
Get(c, t, key) == CacheGet(c, t, key)

CacheInit ==
    /\ env = <<>>
    /\ parser = NoParser
    /\ root = ZeroConfig.root /\ heap = ZeroConfig.heap /\ file = FileAbsent
    /\ calls = 0
    /\ result = NoErr
    /\ last = NoCall
    /\ CryptIdle
    /\ CacheIdle

\* cache, err = memcache.New(WithTtl(ttl), WithMaxCost(maxCost))
CallNew(ttl, maxCost) ==
    /\ ~cache.made /\ cache.err = NoErr
    /\ cache' = New(ttl, maxCost)
    /\ UNCHANGED <<now, got, sets>>
    /\ UNCHANGED <<configVars, cryptVars>>

\* the record of Set(key, value): kept says that the cache had room for
\* every new entry from this call on
SetRecord(value, r, room) ==
    [v |-> value, at |-> now, ok |-> r.result, kept |-> room]

\* result := cache.Set(key, value)
CallSet(key, value, fate) ==
    /\ cache.made
    /\ ~fate.admit => got.found /\ got.key # key /\ got.key \in DOMAIN cache.items
    /\ DOMAIN cache.items # {} => fate.victim \in DOMAIN cache.items
    /\ LET room == key \in DOMAIN cache.items \/ Room(cache, 1)
           ret(r) ==
               /\ cache' = r.c
               /\ sets' = [x \in DOMAIN sets \cup {key} |->
                              IF x = key THEN SetRecord(value, r, room)
                              ELSE [sets[x] EXCEPT !.kept = @ /\ room]]
       IN ret(Set(cache, now, key, value, fate))
    /\ UNCHANGED <<now, got>>
    /\ UNCHANGED <<configVars, cryptVars>>

\* value, found := cache.Get(key)
CallGet(key) ==
    /\ cache.made
    /\ LET ret(r) == got' = [key |-> key, found |-> r.found, v |-> r.v]
       IN ret(Get(cache, now, key))
    /\ UNCHANGED <<cache, now, sets>>
    /\ UNCHANGED <<configVars, cryptVars>>

\* time passes
Tick ==
    /\ now < MaxTime
    /\ now' = now + 1
    /\ UNCHANGED <<cache, got, sets>>
    /\ UNCHANGED <<configVars, cryptVars>>

\* the ticker of the cache removes the entries whose time has passed
TtlCleanup ==
    /\ cache.made
    /\ \E key \in DOMAIN cache.items : Expired(cache.items[key], now)
    /\ cache' = [cache EXCEPT !.items =
                    [key \in {x \in DOMAIN @ : ~Expired(@[x], now)} |-> @[key]]]
    /\ UNCHANGED <<now, got, sets>>
    /\ UNCHANGED <<configVars, cryptVars>>

CacheNext ==
    \/ \E ttl \in Ttls : \E maxCost \in MaxCosts : CallNew(ttl, maxCost)
    \/ \E key \in CacheKeys : \E value \in CacheValues : \E fate \in Fates :
          CallSet(key, value, fate)
    \/ \E key \in CacheKeys : CallGet(key)
    \/ Tick
    \/ TtlCleanup

CacheSpec == CacheInit /\ [][CacheNext]_vars

(***************************************************************************)
(* Vocabulary of the properties of pkg/cryptutil.                          *)
(***************************************************************************)
BytesOps == {"Encrypt", "EncryptString", "Decrypt", "DecryptToString"}
HexOps == {"EncryptToHex", "EncryptStringToHex", "DecryptHex", "DecryptHexToString"}

\* an Encrypt method was called, a Decrypt method was called
Encrypted == enc.op # "none"
Decrypted == dec.op # "none"

\* the last Decrypt method got what the last Encrypt method returned, in
\* the same form and under the same key
DecryptedTheEncrypted ==
    /\ Encrypted /\ Decrypted
    /\ enc.err = NoErr
    /\ dec.in = enc.out
    /\ dec.key = enc.key
    /\ (enc.op \in BytesOps) <=> (dec.op \in BytesOps)

HexDigits == (48..57) \cup (97..102) \cup (65..70)

\* s is hex: digits only, and an even number of them
IsHex(s) == Len(s) % 2 = 0 /\ \A i \in 1..Len(s) : s[i] \in HexDigits

(***************************************************************************)
(* C11. For every plaintext p and every key K that decodes from hex to     *)
(* exactly 32 bytes, Encrypt / EncryptString / EncryptStringToHex of p     *)
(* under K succeeds, and Decrypt / DecryptToString / DecryptHexToString of *)
(* the result under the same K returns exactly p.                          *)
(***************************************************************************)
C11_RoundTrip ==
    /\ Encrypted => enc.err = NoErr
    /\ DecryptedTheEncrypted => dec.err = NoErr /\ dec.out = enc.in

\* C11 as amended: for every plaintext p that is not empty and every key K
\* of 32 bytes, an Encrypt method that reads its nonce succeeds, and the
\* matching Decrypt method under the same K returns exactly p; an empty
\* plaintext is refused with ErrEmptyData.
C11_RoundTripNonEmpty ==
    /\ Encrypted =>
          /\ (enc.in # <<>> /\ Len(enc.rand) = NonceSize) => enc.err = NoErr
          /\ enc.in = <<>> => enc.err = ErrEmptyData
    /\ DecryptedTheEncrypted => dec.err = NoErr /\ dec.out = enc.in

\* "hello" went through EncryptStringToHex and DecryptHexToString
C11_Witness ==
    /\ DecryptedTheEncrypted
    /\ enc.op = "EncryptStringToHex" /\ dec.op = "DecryptHexToString"
    /\ enc.in = Hello /\ dec.out = Hello

(***************************************************************************)
(* C12. NewAES256 returns a usable cipher if and only if the key string is *)
(* non-empty valid hex that decodes to exactly 32 bytes; an empty key      *)
(* fails with ErrEmptyKey, a key that decodes to any other length with     *)
(* ErrInvalidKeyLength, a non-hex key with a third error that is neither,  *)
(* and in every failing case no cipher object is returned.                 *)
(***************************************************************************)
C12_NewAES256 ==
    aes.made =>
       /\ (aes.err = NoErr) <=> (IsHex(aes.hex) /\ Len(aes.hex) = 2 * KeySize)
       /\ aes.err = NoErr => Len(aes.key) = KeySize
       /\ aes.hex = <<>> => aes.err = ErrEmptyKey
       /\ (IsHex(aes.hex) /\ Len(aes.hex) \notin {0, 2 * KeySize})
             => aes.err = ErrInvalidKeyLength
       /\ ~IsHex(aes.hex)
             => /\ aes.err \notin {NoErr, ErrEmptyKey, ErrInvalidKeyLength}
                /\ aes.err.w \notin {ErrEmptyKey.e, ErrInvalidKeyLength.e}
       /\ aes.err # NoErr => aes.key = <<>>

\* NewAES256 refused a key of 64 bytes
C12_Witness ==
    aes.made /\ aes.hex = HexKey64 /\ aes.err = ErrInvalidKeyLength /\ aes.key = <<>>

(***************************************************************************)
(* Vocabulary of the properties of pkg/memcache.                           *)
(***************************************************************************)
\* the last Set of key returned true, in a cache with a time to live
WasSet(key) == cache.made /\ cache.ttl > 0 /\ key \in DOMAIN sets /\ sets[key].ok

\* the time to live of the last Set of key has not elapsed, has elapsed
BeforeTtl(key) == now < sets[key].at + cache.ttl
AfterTtl(key) == now > sets[key].at + cache.ttl

\* what Get(key) returns now
GetNow(key) == Get(cache, now, key)

====
